---- MODULE Spec2Model ----
(***************************************************************************)
(* Model of the KVM hypervisor driver (lib/hypervisor/hv_kvm.py).          *)
(*                                                                         *)
(* The driver keeps no state of its own: the state is the PID directory,   *)
(* the set of live OS processes, and the temporary network scripts.  Each  *)
(* driver call is one action; what the operating system and the launched   *)
(* hypervisor decide (does the launch succeed, does the kill work, does    *)
(* the monitor command get delivered) is an input of the action.           *)
(***************************************************************************)
EXTENDS Integers, Sequences, FiniteSets, TLC

\* Bounds of the model.
MaxPid == 2            \* process ids handed out by the OS: 1..MaxPid
MaxNics == 2           \* longest NIC list of an instance
MaxScripts == 2        \* temporary file names available to mkstemp
MaxDisks == 2          \* longest block device list of an instance

Names == {"web1", "db1"}
Pids == 1..MaxPid
ScriptIds == 1..MaxScripts

\* A NIC list: the NICs are told apart by their MAC address.
NicList(k) == [i \in 1..k |-> [mac |-> i]]

\* The instance definitions handed in by the caller.
Instances ==
  [name : Names, acpi : BOOLEAN, nics : {NicList(k) : k \in 0..MaxNics}]

\* StartInstance does not read the ACPI flag, StopInstance and
\* RebootInstance do not read the NIC list: the calls are given one value of
\* the field they ignore.
StartArgs == {inst \in Instances : inst.acpi}
StopArgs == {inst \in Instances : inst.nics = <<>>}

\* What the external commands and the OS can do during a call.
LaunchOutcomes == {"failed", "running", "late", "crashed"}
KillOutcomes == {"dead", "survived"}
CmdOutcomes == {"failed", "gone", "delivered", "exited"}

VARIABLES
  pidfile,   \* _PIDS_DIR: name -> pid recorded in the PID file, 0 = no file
  alive,     \* pids of the live processes
  pending,   \* live daemonized hypervisors that have not written their PID file yet
  proc,      \* pid -> instance name the process was launched for ("" = never launched)
  nextPid,   \* next process id the OS hands out
  scripts,   \* temporary network scripts that exist
  argv,      \* /proc/<pid>/cmdline: pid -> argument vector (tracked by SpecQuery)
  scan,      \* the GetAllInstancesInfo call in progress (SpecQuery)
  lock,      \* holder of the named lock of the remote API (SpecRapi)
  input,     \* the arguments the caller holds (SpecLaunch, SpecNode)
  last       \* the last driver call: its arguments, what it did, how it ended

vars == <<pidfile, alive, pending, proc, nextPid, scripts, argv, scan, lock,
          input, last>>

----------------------------------------------------------------------------
\* The world a call works on, and the record a call builds while it runs.

World ==
  [pidfile |-> pidfile, alive |-> alive, pending |-> pending, proc |-> proc,
   nextPid |-> nextPid, scripts |-> scripts, argv |-> argv]

Ok == [kind |-> "ok", reason |-> ""]

Begin(w) ==
  [w |-> w, log |-> <<>>, temp_files |-> <<>>, result |-> Ok]

\* Every external effect of a call is logged with what the outside answered.
Emit(c, ev, arg, out) ==
  [c EXCEPT !.log = Append(@, [ev |-> ev, arg |-> arg, out |-> out])]

Raise(c, exc) == [c EXCEPT !.result = exc]

\* utils.ReadPidFile: the pid in the file, 0 when the file is absent.
ReadPidFile(w, name) == w.pidfile[name]

\* utils.IsProcessAlive: false for pid <= 0, otherwise whether the process exists.
IsProcessAlive(w, pid) == pid > 0 /\ pid \in w.alive

\* utils.RemoveFile on a PID file: idempotent.
RemovePidFile(c, name) ==
  Emit([c EXCEPT !.w.pidfile[name] = 0], "RemoveFile", c.w.pidfile[name], "ok")

\* utils.RemoveFile on a network script.
RemoveScript(c, s) ==
  Emit([c EXCEPT !.w.scripts = @ \ {s}], "RemoveScript", s, "ok")

\* utils.KillProcess: the process is gone afterwards unless the OS-level kill fails.
KillProcess(c, pid, ko) ==
  Emit([c EXCEPT !.w.alive = IF ko = "dead" THEN @ \ {pid} ELSE @,
                 !.w.pending = IF ko = "dead" THEN @ \ {pid} ELSE @],
       "KillProcess", pid, ko)

\* "fmt % args" inside a raise of errors.HypervisorError: with as many
\* arguments as placeholders the HypervisorError is raised; otherwise the
\* formatting itself raises TypeError and the HypervisorError is never built.
HypervisorError(placeholders, nargs, reason) ==
  IF placeholders = nargs
  THEN [kind |-> "HypervisorError", reason |-> reason]
  ELSE [kind |-> "TypeError", reason |-> "format"]

----------------------------------------------------------------------------
\* KVMHypervisor._WriteNetScript: tempfile.mkstemp creates a file that did
\* not exist before; its name is returned.
WriteNetScript(c) ==
  LET s == CHOOSE x \in ScriptIds \ c.w.scripts :
             \A y \in ScriptIds \ c.w.scripts : x <= y
  IN  Emit([c EXCEPT !.w.scripts = @ \cup {s},
                     !.temp_files = Append(@, s)],
           "WriteNetScript", s, "ok")

\* The loop over instance.nics in StartInstance.
RECURSIVE WriteNetScripts(_, _)
WriteNetScripts(c, n) ==
  IF n = 0 THEN c ELSE WriteNetScripts(WriteNetScript(c), n - 1)

\* The loop over temp_files at the end of StartInstance.
RECURSIVE RemoveTempFiles(_, _)
RemoveTempFiles(c, i) ==
  IF i > Len(c.temp_files) THEN c
  ELSE RemoveTempFiles(RemoveScript(c, c.temp_files[i]), i + 1)

\* utils.RunCmd(kvm_cmd): the launcher runs and exits.
\*   failed  - nonzero exit, no hypervisor is left behind
\*   running - the hypervisor daemonized and wrote its PID file
\*   late    - the hypervisor daemonized, its PID file is not written yet
\*   crashed - the hypervisor wrote its PID file and died right away
RunKvm(c, name, lo) ==
  LET pid == c.w.nextPid
      c1  == Emit(c, "RunCmd", 0, lo)
  IN  IF lo = "failed" THEN c1
      ELSE [c1 EXCEPT
              !.w.nextPid = pid + 1,
              !.w.proc[pid] = name,
              !.w.alive = IF lo = "crashed" THEN @ ELSE @ \cup {pid},
              !.w.pending = IF lo = "late" THEN @ \cup {pid} ELSE @,
              !.w.pidfile[name] = IF lo = "late" THEN @ ELSE pid]

\* StartInstance without the "already running" check.
StartInstanceDo_NoAliveCheck(w, inst, lo) ==
  LET c0 == Begin(w)
      pidfile_ == inst.name
      c1 == WriteNetScripts(c0, Len(inst.nics))
      c2 == RunKvm(c1, inst.name, lo)
  IN  IF lo = "failed"
      THEN Raise(c2, HypervisorError(3, 3, "launch failed"))
      ELSE IF ~IsProcessAlive(c2.w, ReadPidFile(c2.w, pidfile_))
      THEN Raise(c2, HypervisorError(2, 1, "not alive after launch"))
      ELSE RemoveTempFiles(c2, 1)

\* StartInstance that trusts the launcher's exit status.
StartInstanceDo_NoVerify(w, inst, lo) ==
  LET c0 == Begin(w)
      pidfile_ == inst.name
  IN  IF IsProcessAlive(w, ReadPidFile(w, pidfile_))
      THEN Raise(c0, HypervisorError(2, 2, "already running"))
      ELSE
        LET c1 == WriteNetScripts(c0, Len(inst.nics))
            c2 == RunKvm(c1, inst.name, lo)
        IN  IF lo = "failed"
            THEN Raise(c2, HypervisorError(3, 3, "launch failed"))
            ELSE RemoveTempFiles(c2, 1)

\* StartInstance that forgets the last network script when cleaning up.
StartInstanceDo_LeakLast(w, inst, lo) ==
  LET c0 == Begin(w)
      pidfile_ == inst.name
  IN  IF IsProcessAlive(w, ReadPidFile(w, pidfile_))
      THEN Raise(c0, HypervisorError(2, 2, "already running"))
      ELSE
        LET c1 == WriteNetScripts(c0, Len(inst.nics))
            c2 == RunKvm(c1, inst.name, lo)
        IN  IF lo = "failed"
            THEN Raise(c2, HypervisorError(3, 3, "launch failed"))
            ELSE IF ~IsProcessAlive(c2.w, ReadPidFile(c2.w, pidfile_))
            THEN Raise(c2, HypervisorError(2, 1, "not alive after launch"))
            ELSE RemoveTempFiles(c2, 2)

\* StartInstance that removes its network scripts before it reports a failure.
StartInstanceDo_CleanupOnError(w, inst, lo) ==
  LET c0 == Begin(w)
      pidfile_ == inst.name
  IN  IF IsProcessAlive(w, ReadPidFile(w, pidfile_))
      THEN Raise(c0, HypervisorError(2, 2, "already running"))
      ELSE
        LET c1 == WriteNetScripts(c0, Len(inst.nics))
            c2 == RunKvm(c1, inst.name, lo)
        IN  IF lo = "failed"
            THEN Raise(RemoveTempFiles(c2, 1),
                       HypervisorError(3, 3, "launch failed"))
            ELSE IF ~IsProcessAlive(c2.w, ReadPidFile(c2.w, pidfile_))
            THEN Raise(RemoveTempFiles(c2, 1),
                       HypervisorError(2, 1, "not alive after launch"))
            ELSE RemoveTempFiles(c2, 1)

\* KVMHypervisor.StartInstance
StartInstanceDo(w, inst, lo) ==
  LET c0 == Begin(w)
      pidfile_ == inst.name
  IN  IF IsProcessAlive(w, ReadPidFile(w, pidfile_))
      THEN Raise(c0, HypervisorError(2, 2, "already running"))
      ELSE
        LET c1 == WriteNetScripts(c0, Len(inst.nics))
            c2 == RunKvm(c1, inst.name, lo)
        IN  IF lo = "failed"
            THEN Raise(c2, HypervisorError(3, 3, "launch failed"))
            ELSE IF ~IsProcessAlive(c2.w, ReadPidFile(c2.w, pidfile_))
            THEN Raise(c2, HypervisorError(2, 1, "not alive after launch"))
            ELSE RemoveTempFiles(c2, 1)

\* utils.RunCmd("echo 'system_powerdown' | socat ..."):
\*   failed    - the command is not delivered, the hypervisor runs on
\*   gone      - the hypervisor exited on its own before socat could connect
\*   delivered - the command is delivered, the guest has not acted on it yet
\*   exited    - the command is delivered and the guest is already gone
RunSocat(c, pid, co) ==
  LET c1 == Emit(c, "Monitor", pid, co)
  IN  IF co \in {"exited", "gone"}
      THEN [c1 EXCEPT !.w.alive = @ \ {pid}, !.w.pending = @ \ {pid}]
      ELSE c1

\* result.failed of the socat command.
CmdFailed(co) == co \in {"failed", "gone"}

\* The tail of StopInstance: remove the PID file of a process that is gone.
\* (Shared by the variants below, which differ in how they stop the process.)
StopTail(c1, pid, pid_file) ==
  IF c1.result # Ok THEN c1
  ELSE IF ~IsProcessAlive(c1.w, pid)
  THEN RemovePidFile(c1, pid_file)
  ELSE c1

\* StopInstance that kills only when forced, whatever the ACPI flag.
StopInstanceDo_ForceOnly(w, inst, force, ko, co) ==
  LET c0 == Begin(w)
      pid == ReadPidFile(w, inst.name)
      c1 == IF pid > 0 /\ IsProcessAlive(w, pid)
            THEN IF force
                 THEN KillProcess(c0, pid, ko)
                 ELSE LET c == RunSocat(c0, pid, co)
                      IN  IF CmdFailed(co)
                          THEN Raise(c, HypervisorError(2, 2, "powerdown failed"))
                          ELSE c
            ELSE c0
  IN  StopTail(c1, pid, inst.name)

\* StopInstance that asks an ACPI guest to power down even when forced.
StopInstanceDo_AcpiFirst(w, inst, force, ko, co) ==
  LET c0 == Begin(w)
      pid == ReadPidFile(w, inst.name)
      c1 == IF pid > 0 /\ IsProcessAlive(w, pid)
            THEN IF ~inst.acpi
                 THEN KillProcess(c0, pid, ko)
                 ELSE LET c == RunSocat(c0, pid, co)
                      IN  IF CmdFailed(co)
                          THEN Raise(c, HypervisorError(2, 2, "powerdown failed"))
                          ELSE c
            ELSE c0
  IN  StopTail(c1, pid, inst.name)

\* StopInstance that falls back to a kill when the power-down is not delivered.
StopInstanceDo_KillFallback(w, inst, force, ko, co) ==
  LET c0 == Begin(w)
      pid == ReadPidFile(w, inst.name)
      c1 == IF pid > 0 /\ IsProcessAlive(w, pid)
            THEN IF force \/ ~inst.acpi
                 THEN KillProcess(c0, pid, ko)
                 ELSE LET c == RunSocat(c0, pid, co)
                      IN  IF CmdFailed(co)
                          THEN KillProcess(c, pid, ko)
                          ELSE c
            ELSE c0
  IN  StopTail(c1, pid, inst.name)

\* StopInstance that does not check the process before stopping it.
StopInstanceDo_NoLiveCheck(w, inst, force, ko, co) ==
  LET c0 == Begin(w)
      pid == ReadPidFile(w, inst.name)
      c1 == IF pid > 0
            THEN IF force \/ ~inst.acpi
                 THEN KillProcess(c0, pid, ko)
                 ELSE LET c == RunSocat(c0, pid, co)
                      IN  IF CmdFailed(co)
                          THEN Raise(c, HypervisorError(2, 2, "powerdown failed"))
                          ELSE c
            ELSE c0
  IN  StopTail(c1, pid, inst.name)

\* StopInstance that refuses an instance without a PID file.
StopInstanceDo_RaiseIfAbsent(w, inst, force, ko, co) ==
  LET c0 == Begin(w)
      pid == ReadPidFile(w, inst.name)
      c1 == IF pid > 0 /\ IsProcessAlive(w, pid)
            THEN IF force \/ ~inst.acpi
                 THEN KillProcess(c0, pid, ko)
                 ELSE LET c == RunSocat(c0, pid, co)
                      IN  IF CmdFailed(co)
                          THEN Raise(c, HypervisorError(2, 2, "powerdown failed"))
                          ELSE c
            ELSE IF pid = 0
            THEN Raise(c0, HypervisorError(2, 2, "not running"))
            ELSE c0
  IN  StopTail(c1, pid, inst.name)

\* StopInstance that removes the PID file whatever became of the process.
StopInstanceDo_AlwaysRemove(w, inst, force, ko, co) ==
  LET c0 == Begin(w)
      pid == ReadPidFile(w, inst.name)
      c1 == IF pid > 0 /\ IsProcessAlive(w, pid)
            THEN IF force \/ ~inst.acpi
                 THEN KillProcess(c0, pid, ko)
                 ELSE LET c == RunSocat(c0, pid, co)
                      IN  IF CmdFailed(co)
                          THEN Raise(c, HypervisorError(2, 2, "powerdown failed"))
                          ELSE c
            ELSE c0
  IN  IF c1.result # Ok THEN c1 ELSE RemovePidFile(c1, inst.name)

\* StopInstance that kills every hypervisor it finds, not only its own.
StopInstanceDo_KillAll(w, inst, force, ko, co) ==
  LET c0 == Begin(w)
      pid == ReadPidFile(w, inst.name)
      c1 == IF pid > 0 /\ IsProcessAlive(w, pid)
            THEN IF force \/ ~inst.acpi
                 THEN [KillProcess(c0, pid, ko) EXCEPT !.w.alive = {},
                                                       !.w.pending = {}]
                 ELSE LET c == RunSocat(c0, pid, co)
                      IN  IF CmdFailed(co)
                          THEN Raise(c, HypervisorError(2, 2, "powerdown failed"))
                          ELSE c
            ELSE c0
  IN  StopTail(c1, pid, inst.name)

\* KVMHypervisor.StopInstance
StopInstanceDo(w, inst, force, ko, co) ==
  LET c0 == Begin(w)
      pid_file == inst.name
      pid == ReadPidFile(w, pid_file)
      c1 == IF pid > 0 /\ IsProcessAlive(w, pid)
            THEN IF force \/ ~inst.acpi
                 THEN KillProcess(c0, pid, ko)
                 ELSE LET c == RunSocat(c0, pid, co)
                      IN  IF CmdFailed(co)
                          THEN Raise(c, HypervisorError(2, 2, "powerdown failed"))
                          ELSE c
            ELSE c0
  IN  IF c1.result # Ok THEN c1
      ELSE IF ~IsProcessAlive(c1.w, pid)
      THEN RemovePidFile(c1, pid_file)
      ELSE c1

\* Number of arguments StartInstance takes besides self, and the number
\* RebootInstance passes to it.
StartInstanceArgs == 3
RebootStartArgs == 1

\* A Python call: with the wrong number of arguments it raises TypeError
\* before the body runs.
Call(c, given, wanted, body) ==
  IF given # wanted
  THEN Raise(c, [kind |-> "TypeError", reason |-> "arguments"])
  ELSE body

\* KVMHypervisor.RebootInstance
RebootInstanceDo(w, inst, ko, co, lo) ==
  LET c1 == StopInstanceDo(w, inst, FALSE, ko, co)
  IN  IF c1.result # Ok THEN c1
      ELSE LET c2 == StartInstanceDo(c1.w, inst, lo)
           IN  Call(c1, RebootStartArgs, StartInstanceArgs,
                    [c2 EXCEPT !.log = c1.log \o @])

\* ListInstances that reports every name with a PID file.
ListInstancesDo_NoLiveCheck(w) ==
  {name \in DOMAIN w.pidfile : w.pidfile[name] # 0}

\* KVMHypervisor.ListInstances
ListInstancesDo(w) ==
  {name \in DOMAIN w.pidfile : w.pidfile[name] # 0
                    /\ IsProcessAlive(w, ReadPidFile(w, name))}

\* GetInstanceInfo reads the memory size and the vCPU count back from the
\* argument vector of the process.

\* A kvm_cmd element that is the string v (elements are tagged, see KvmCmd).
IsArg(arg, v) == arg.k = "s" /\ arg.v = v

RECURSIVE ParseCmdline(_, _, _, _)

\* while arg_list: arg = arg_list.pop(0); -m and -smp take the next element
ParseCmdline(arg_list, i, memory, vcpus) ==
  IF i > Len(arg_list)
  THEN [memory |-> memory, vcpus |-> vcpus, exc |-> "none"]
  ELSE IF IsArg(arg_list[i], "-m") \/ IsArg(arg_list[i], "-smp")
  THEN IF i + 1 > Len(arg_list)
       THEN [memory |-> memory, vcpus |-> vcpus, exc |-> "IndexError"]
       ELSE IF IsArg(arg_list[i], "-m")
       THEN ParseCmdline(arg_list, i + 2, arg_list[i + 1], vcpus)
       ELSE ParseCmdline(arg_list, i + 2, memory, arg_list[i + 1])
  ELSE ParseCmdline(arg_list, i + 1, memory, vcpus)

\* cmdline.split('\x00'): the arguments, and the empty string after the
\* last NUL.
SplitCmdline(cmdline) ==
  IF cmdline = <<>> THEN <<>> ELSE Append(cmdline, [k |-> "s", v |-> ""])

\* GetInstanceInfo from the open of /proc/<pid>/cmdline on: the tuple
\* (name, pid, memory, vcpus, stat, times).
InstanceInfo(w, instance_name, pid) ==
  LET parsed == ParseCmdline(SplitCmdline(w.argv[pid]), 1,
                             [k |-> "i", v |-> 0], [k |-> "i", v |-> 0])
  IN  [found |-> TRUE, name |-> instance_name, pid |-> pid,
       memory |-> parsed.memory, vcpus |-> parsed.vcpus,
       stat |-> "---b-", times |-> "0"]

\* KVMHypervisor.GetInstanceInfo: the empty set is None.
GetInstanceInfoDo(w, instance_name) ==
  LET pid == ReadPidFile(w, instance_name)
  IN  IF ~IsProcessAlive(w, pid) THEN {}
      ELSE {InstanceInfo(w, instance_name, pid)}

----------------------------------------------------------------------------
\* The record of a call.
NoInst == [name |-> "", acpi |-> FALSE, nics |-> <<>>]

Idle ==
  [op |-> "none", inst |-> NoInst, force |-> FALSE,
   result |-> Ok, log |-> <<>>, list |-> {}, info |-> {}]

Done(op, inst, force, c) ==
  [Idle EXCEPT !.op = op, !.inst = inst, !.force = force,
               !.result = c.result, !.log = c.log]

Commit(c) ==
  /\ pidfile' = c.w.pidfile
  /\ alive' = c.w.alive
  /\ pending' = c.w.pending
  /\ proc' = c.w.proc
  /\ nextPid' = c.w.nextPid
  /\ scripts' = c.w.scripts

world == <<pidfile, alive, pending, proc, nextPid, scripts>>

NoScan == [pc |-> "idle"]

\* Nothing has been launched on the node and no call is under way.
Fresh ==
  /\ pidfile = [n \in Names |-> 0]
  /\ alive = {}
  /\ pending = {}
  /\ proc = [p \in Pids |-> ""]
  /\ nextPid = 1
  /\ scripts = {}
  /\ argv = [p \in Pids |-> <<>>]
  /\ scan = NoScan
  /\ lock = "free"
  /\ last = Idle

NoArgs == [op |-> "none"]

Init ==
  /\ Fresh
  /\ input = NoArgs

\* The OS can hand out a pid and mkstemp a name for every NIC.
Room(inst) ==
  /\ nextPid <= MaxPid
  /\ Cardinality(scripts) + Len(inst.nics) <= MaxScripts

\* What the outside can answer during a call is an input of the call; the
\* answers a call never asks for make no difference to it.
StartInstance ==
  \E inst \in StartArgs :
    /\ Room(inst)
    /\ \E c \in {StartInstanceDo(World, inst, lo) : lo \in LaunchOutcomes} :
         /\ Commit(c)
         /\ last' = Done("StartInstance", inst, FALSE, c)
         /\ UNCHANGED <<argv, scan, lock, input>>

StopInstance ==
  \E inst \in StopArgs, force \in BOOLEAN :
    \E c \in {StopInstanceDo(World, inst, force, ko, co) :
                ko \in KillOutcomes, co \in CmdOutcomes} :
      /\ Commit(c)
      /\ last' = Done("StopInstance", inst, force, c)
      /\ UNCHANGED <<argv, scan, lock, input>>

RebootInstance ==
  \E inst \in StopArgs :
    /\ Room(inst)
    /\ \E c \in {RebootInstanceDo(World, inst, ko, co, lo) :
                  ko \in KillOutcomes, co \in CmdOutcomes,
                  lo \in LaunchOutcomes} :
         /\ Commit(c)
         /\ last' = Done("RebootInstance", inst, FALSE, c)
         /\ UNCHANGED <<argv, scan, lock, input>>

ListInstances ==
  /\ last' = [Idle EXCEPT !.op = "ListInstances",
                          !.list = ListInstancesDo(World)]
  /\ UNCHANGED <<world, argv, scan, lock, input>>

GetInstanceInfo ==
  \E name \in DOMAIN pidfile :
    /\ scan.pc = "idle"
    /\ last' = [Idle EXCEPT !.op = "GetInstanceInfo", !.inst.name = name,
                            !.info = GetInstanceInfoDo(World, name)]
    /\ UNCHANGED <<world, argv, scan, lock, input>>

\* A hypervisor process exits on its own (guest shutdown, crash).
ProcessExit ==
  \E pid \in alive :
    /\ alive' = alive \ {pid}
    /\ pending' = pending \ {pid}
    /\ argv' = [argv EXCEPT ![pid] = <<>>]
    /\ last' = Idle
    /\ UNCHANGED <<pidfile, proc, nextPid, scripts, scan, lock, input>>

\* A daemonized hypervisor writes its PID file after the launcher returned.
LatePidWrite ==
  \E pid \in pending :
    /\ pidfile' = [pidfile EXCEPT ![proc[pid]] = pid]
    /\ pending' = pending \ {pid}
    /\ last' = Idle
    /\ UNCHANGED <<alive, proc, nextPid, scripts, argv, scan, lock, input>>

Next ==
  \/ StartInstance
  \/ StopInstance
  \/ RebootInstance
  \/ ListInstances
  \/ GetInstanceInfo
  \/ ProcessExit
  \/ LatePidWrite

Spec == Init /\ [][Next]_vars

----------------------------------------------------------------------------
\* Parameter validation.  A path is the sequence of its characters; the
\* empty path is the empty string.

RelPath == <<"k">>
AbsPath == <<"/", "k">>
Paths == {<<>>, RelPath, AbsPath}

\* hvparams: the two parameters the KVM driver looks at.
HvParams == [kernel_path : Paths, initrd_path : Paths]

\* What the node's filesystem holds under each path.
FileSystems == [Paths \ {<<>>} -> {"none", "file", "dir"}]

\* os.path.isabs
IsAbs(path) == Len(path) > 0 /\ path[1] = "/"

\* os.path.isfile: the look at the filesystem is logged.
IsFile(fs, path) == path \in DOMAIN fs /\ fs[path] = "file"

StatFile(v, path) ==
  [v EXCEPT !.log = Append(@, [ev |-> "isfile", arg |-> path, out |-> "ok"])]

\* hv_base.BaseHypervisor.CheckParameterSyntax / ValidateParameters: the
\* mapping holds the known parameters with values of the right type.
BaseHypervisorCheck(v, hvparams) == v

\* CheckParameterSyntax that lets a relative kernel path through.
CheckParameterSyntaxDo_NoIsAbs(fs, hvparams) ==
  LET v == BaseHypervisorCheck([log |-> <<>>, result |-> Ok], hvparams)
  IN  IF hvparams.kernel_path = <<>>
      THEN Raise(v, HypervisorError(0, 0, "Need a kernel for the instance"))
      ELSE IF hvparams.initrd_path # <<>> /\ ~IsAbs(hvparams.initrd_path)
      THEN Raise(v, HypervisorError(0, 0, "The initrd path must an absolute path"))
      ELSE v

\* KVMHypervisor.CheckParameterSyntax, called on a node whose filesystem is fs
CheckParameterSyntaxDo(fs, hvparams) ==
  LET v == BaseHypervisorCheck([log |-> <<>>, result |-> Ok], hvparams)
  IN  IF hvparams.kernel_path = <<>>
      THEN Raise(v, HypervisorError(0, 0, "Need a kernel for the instance"))
      ELSE IF ~IsAbs(hvparams.kernel_path)
      THEN Raise(v, HypervisorError(0, 0, "The kernel path must an absolute path"))
      ELSE IF hvparams.initrd_path # <<>> /\ ~IsAbs(hvparams.initrd_path)
      THEN Raise(v, HypervisorError(0, 0, "The initrd path must an absolute path"))
      ELSE v

\* ValidateParameters that is content with anything that exists.
ValidateParametersDo_Exists(fs, hvparams) ==
  LET v0 == BaseHypervisorCheck([log |-> <<>>, result |-> Ok], hvparams)
      kernel_path == hvparams.kernel_path
      initrd_path == hvparams.initrd_path
      v1 == StatFile(v0, kernel_path)
  IN  IF kernel_path \notin DOMAIN fs \/ fs[kernel_path] = "none"
      THEN Raise(v1, HypervisorError(1, 1, "Instance kernel not found or not a file"))
      ELSE IF initrd_path # <<>>
      THEN LET v2 == StatFile(v1, initrd_path)
           IN  IF ~IsFile(fs, initrd_path)
               THEN Raise(v2, HypervisorError(1, 1, "Instance initrd not found or not a file"))
               ELSE v2
      ELSE v1

\* KVMHypervisor.ValidateParameters, called on a node whose filesystem is fs
ValidateParametersDo(fs, hvparams) ==
  LET v0 == BaseHypervisorCheck([log |-> <<>>, result |-> Ok], hvparams)
      kernel_path == hvparams.kernel_path
      initrd_path == hvparams.initrd_path
      v1 == StatFile(v0, kernel_path)
  IN  IF ~IsFile(fs, kernel_path)
      THEN Raise(v1, HypervisorError(1, 1, "Instance kernel not found or not a file"))
      ELSE IF initrd_path # <<>>
      THEN LET v2 == StatFile(v1, initrd_path)
           IN  IF ~IsFile(fs, initrd_path)
               THEN Raise(v2, HypervisorError(1, 1, "Instance initrd not found or not a file"))
               ELSE v2
      ELSE v1

Checked(op, fs, hvparams, v) ==
  [op |-> op, fs |-> fs, hvparams |-> hvparams,
   result |-> v.result, log |-> v.log]

\* The caller checks the parameters of the instance definition it holds.
CheckParameterSyntax ==
  /\ last' = Checked("CheckParameterSyntax", input.fs, input.inst.hvparams,
                     CheckParameterSyntaxDo(input.fs, input.inst.hvparams))
  /\ UNCHANGED <<world, argv, scan, lock, input>>

ValidateParameters ==
  /\ last' = Checked("ValidateParameters", input.fs, input.inst.hvparams,
                     ValidateParametersDo(input.fs, input.inst.hvparams))
  /\ UNCHANGED <<world, argv, scan, lock, input>>

----------------------------------------------------------------------------
\* The launch command.  An element of kvm_cmd is a string ("s"), a path
\* ("p"), an integer ("i") or a formatted string ("fmt": the format followed
\* by its arguments).

Str(v) == [k |-> "s", v |-> v]
Path(v) == [k |-> "p", v |-> v]
Num(v) == [k |-> "i", v |-> v]
Fmt(f, args) == [k |-> "fmt", v |-> <<f>> \o args]

IsStr(t, v) == t.k = "s" /\ t.v = v
IsPath(t, v) == t.k = "p" /\ t.v = v
IsFmt(t, f, args) == t.k = "fmt" /\ t.v = <<f>> \o args

\* for nic in instance.nics: the two -net options per NIC.
RECURSIVE NetArgs(_, _, _)
NetArgs(nics, temp_files, nic_seq) ==
  IF nic_seq >= Len(nics) THEN <<>>
  ELSE LET script == temp_files[nic_seq + 1]
           nic_val == Fmt("nic,macaddr=%s,model=virtio",
                          <<nics[nic_seq + 1].mac>>)
       IN  <<Str("-net"), nic_val,
             Str("-net"), Fmt("tap,script=%s", <<script>>)>>
           \o NetArgs(nics, temp_files, nic_seq + 1)

RECURSIVE DriveArgs_AllBoot(_, _, _)
RECURSIVE DriveArgs(_, _, _)

\* The drive loop with every drive marked bootable.
DriveArgs_AllBoot(block_devices, i, boot_drive) ==
  IF i > Len(block_devices) THEN <<>>
  ELSE LET rldev == block_devices[i].rldev
           boot_val == ",boot=on"
           if_val == ",if=virtio"
           drive_val == Fmt("file=%s,format=raw%s%s",
                            <<rldev.dev_path, if_val, boot_val>>)
       IN  <<Str("-drive"), drive_val>>
           \o DriveArgs_AllBoot(block_devices, i + 1, FALSE)

\* for cfdev, rldev in block_devices: one -drive option per device.
DriveArgs(block_devices, i, boot_drive) ==
  IF i > Len(block_devices) THEN <<>>
  ELSE LET rldev == block_devices[i].rldev
           boot_val == IF boot_drive THEN ",boot=on" ELSE ""
           if_val == ",if=virtio"
           drive_val == Fmt("file=%s,format=raw%s%s",
                            <<rldev.dev_path, if_val, boot_val>>)
       IN  <<Str("-drive"), drive_val>>
           \o DriveArgs(block_devices, i + 1, FALSE)

\* kvm_cmd as StartInstance builds it; temp_files are the scripts that
\* _WriteNetScript returned, in NIC order.
KvmCmd(instance, block_devices, temp_files) ==
  LET pidfile_ == Fmt("_PIDS_DIR/%s", <<instance.name>>)
      initrd_path == instance.hvparams.initrd_path
  IN  <<Path("KVM_PATH")>>
      \o <<Str("-m"), Num(instance.beparams.memory)>>
      \o <<Str("-smp"), Num(instance.beparams.vcpus)>>
      \o <<Str("-pidfile"), pidfile_>>
      \o <<Str("-name"), Str(instance.name)>>
      \o <<Str("-daemonize")>>
      \o (IF ~instance.acpi THEN <<Str("-no-acpi")>> ELSE <<>>)
      \o (IF instance.nics = <<>> THEN <<Str("-net"), Str("none")>>
          ELSE NetArgs(instance.nics, temp_files, 0))
      \o DriveArgs(block_devices, 1, TRUE)
      \o <<Str("-kernel"), Path(instance.hvparams.kernel_path)>>
      \o (IF initrd_path # <<>> THEN <<Str("-initrd"), Path(initrd_path)>>
          ELSE <<>>)
      \o <<Str("-append"), Str("console=ttyS0,38400 root=/dev/vda")>>
      \o <<Str("-nographic")>>
      \o <<Str("-monitor"),
           Fmt("unix:_CTRL_DIR/%s.monitor,server,nowait", <<instance.name>>)>>
      \o <<Str("-serial"),
           Fmt("unix:_CTRL_DIR/%s.serial,server,nowait", <<instance.name>>)>>

\* str() of a non-negative integer.
Digits == <<"0", "1", "2", "3", "4", "5", "6", "7", "8", "9">>

RECURSIVE DecStr(_)
DecStr(n) ==
  IF n < 10 THEN Digits[n + 1]
  ELSE DecStr(n \div 10) \o Digits[(n % 10) + 1]

\* The argument vector of the launched process: utils.RunCmd turns every
\* element of the command into a string.
Cmdline(kvm_cmd) ==
  [i \in DOMAIN kvm_cmd |->
     IF kvm_cmd[i].k = "i" THEN Str(DecStr(kvm_cmd[i].v)) ELSE kvm_cmd[i]]

\* StartInstance with the command it runs: the RunCmd event carries
\* kvm_cmd, and a launched hypervisor has it as its argument vector.
StartInstanceCmd(w, instance, block_devices, lo) ==
  LET c == StartInstanceDo(w, instance, lo)
      kvm_cmd == KvmCmd(instance, block_devices, c.temp_files)
      pid == w.nextPid
  IN  [c EXCEPT
         !.log = [i \in DOMAIN @ |->
                    IF @[i].ev = "RunCmd" THEN [@[i] EXCEPT !.arg = kvm_cmd]
                    ELSE @[i]],
         !.w.argv = IF c.w.nextPid # pid /\ pid \in c.w.alive
                    THEN [@ EXCEPT ![pid] = Cmdline(kvm_cmd)]
                    ELSE @]

\* The complete instance definitions: name, ACPI flag, NICs, backend and
\* hypervisor parameters.
Memories == {128}
VcpuCounts == {1}

FullInstances(names, memories, vcpus, hvparams) ==
  [name : names, acpi : BOOLEAN, nics : {NicList(k) : k \in 0..MaxNics},
   beparams : [memory : memories, vcpus : vcpus], hvparams : hvparams]

\* The block device lists: (cfdev, rldev) pairs of distinct devices.
BlockDevices ==
  LET orders == UNION {{o \in [1..d -> 1..MaxDisks] :
                          \A i, j \in 1..d : i # j => o[i] # o[j]} :
                       d \in 0..MaxDisks}
  IN  {[i \in DOMAIN o |-> [cfdev |-> o[i], rldev |-> [dev_path |-> o[i]]]] :
       o \in orders}

Launched(op, inst, block_devices, c) ==
  [op |-> op, inst |-> inst, block_devices |-> block_devices, force |-> FALSE,
   result |-> c.result, log |-> c.log]

\* What a caller may hold: an instance definition, its block devices, and
\* the filesystem of the node it runs on.
LaunchArgs ==
  [op : {"launch"},
   inst : FullInstances({"web1"}, Memories, VcpuCounts, HvParams),
   block_devices : BlockDevices, fs : FileSystems]

InitLaunch ==
  /\ Fresh
  /\ input \in LaunchArgs

\* StartInstance on a node where nothing has been launched yet.
FirstStartInstance ==
  /\ nextPid = 1
  /\ Room(input.inst)
  /\ \E c \in {StartInstanceCmd(World, input.inst, input.block_devices, lo) :
                lo \in LaunchOutcomes} :
       /\ Commit(c)
       /\ argv' = c.w.argv
       /\ last' = Launched("StartInstance", input.inst,
                           input.block_devices, c)
       /\ UNCHANGED <<scan, lock, input>>

NextLaunch ==
  \/ CheckParameterSyntax
  \/ ValidateParameters
  \/ FirstStartInstance
  \/ ProcessExit
  \/ LatePidWrite

SpecLaunch == InitLaunch /\ [][NextLaunch]_vars

----------------------------------------------------------------------------
\* GetNodeInfo.  /proc/meminfo is a sequence of lines; a line with a colon
\* has a key and a value in kB, a line without one is skipped.

KbPerMb == 1024

MemLine(key, kb) == [colon |-> TRUE, key |-> key, kb |-> kb]
BlankLine == [colon |-> FALSE, key |-> "", kb |-> 0]

\* The counters a node may report, in kB: whole and fractional megabytes.
TotalKb == {4096 * KbPerMb, 4096 * KbPerMb + 1023}
FreeKb == {255 * KbPerMb, 256 * KbPerMb, 256 * KbPerMb + 512,
           511 * KbPerMb + 512, 512 * KbPerMb, 512 * KbPerMb + 512}
ActiveKb == {300 * KbPerMb}
CpuCounts == {1, 2}

MemInfo(total, free, buffers, cached, active) ==
  <<MemLine("MemTotal", total), MemLine("MemFree", free),
    MemLine("Buffers", buffers), MemLine("Cached", cached),
    MemLine("SwapCached", 0), MemLine("Active", active), BlankLine>>

NodeArgs ==
  [op : {"node"},
   meminfo : {MemInfo(t, f, b, c, a) :
                t \in TotalKb, f \in FreeKb, b \in FreeKb, c \in FreeKb,
                a \in ActiveKb},
   cpus : CpuCounts,
   io : {"ok", "meminfo unreadable", "cpuinfo unreadable"}]

RECURSIVE ScanMemInfo(_, _, _, _)

\* for line in data: the loop over the lines of /proc/meminfo.
ScanMemInfo(data, i, result, sum_free) ==
  IF i > Len(data)
  THEN [result EXCEPT !.memory_free = sum_free]
  ELSE LET line == data[i]
       IN  IF ~line.colon
           THEN ScanMemInfo(data, i + 1, result, sum_free)
           ELSE IF line.key = "MemTotal"
           THEN ScanMemInfo(data, i + 1,
                  [result EXCEPT !.memory_total = line.kb \div KbPerMb],
                  sum_free)
           ELSE IF line.key \in {"MemFree", "Buffers", "Cached"}
           THEN ScanMemInfo(data, i + 1, result,
                            sum_free + (line.kb \div KbPerMb))
           ELSE IF line.key = "Active"
           THEN ScanMemInfo(data, i + 1,
                  [result EXCEPT !.memory_dom0 = line.kb \div KbPerMb],
                  sum_free)
           ELSE ScanMemInfo(data, i + 1, result, sum_free)

NoNodeInfo ==
  [memory_total |-> -1, memory_free |-> -1, memory_dom0 |-> -1,
   cpu_total |-> -1]

\* KVMHypervisor.GetNodeInfo
GetNodeInfoDo(node) ==
  IF node.io = "meminfo unreadable"
  THEN [result |-> HypervisorError(1, 1, "Failed to list node info"),
        info |-> NoNodeInfo]
  ELSE LET result == ScanMemInfo(node.meminfo, 1, NoNodeInfo, 0)
       IN  IF node.io = "cpuinfo unreadable"
           THEN [result |-> HypervisorError(1, 1, "Failed to list node info"),
                 info |-> NoNodeInfo]
           ELSE [result |-> Ok,
                 info |-> [result EXCEPT !.cpu_total = node.cpus]]

InitNode ==
  /\ Fresh
  /\ input \in NodeArgs

GetNodeInfo ==
  /\ last' = [op |-> "GetNodeInfo", node |-> input,
              result |-> GetNodeInfoDo(input).result,
              info |-> GetNodeInfoDo(input).info]
  /\ UNCHANGED <<world, argv, scan, lock, input>>

NextNode == GetNodeInfo

SpecNode == InitNode /\ [][NextNode]_vars

----------------------------------------------------------------------------
\* The remote API: R_Generic.do_Request (lib/rapi/resources.py).  The named
\* lock is shared with other processes, so the request is followed step by
\* step: getattr, utils.Lock with its retries, the handler, the finally
\* clause, and the answer to the client.

MaxRetries == 15

\* A request: the LOCK of the resource class ("" is None), whether the
\* class implements the method, and how the handler ends.
HandlerOutcomes ==
  {"return", "RemoteAPIError", "OpPrereqError", "AttributeError",
   "LockError", "Exception"}

Requests ==
  [op : {"request"}, LOCK : {"cmd", ""}, implemented : BOOLEAN,
   handler : HandlerOutcomes]

Received == [op |-> "do_Request", pc |-> "getattr", retries |-> 0,
             exc |-> "none", log |-> <<>>, code |-> 0]

Note(r, ev, out) ==
  [r EXCEPT !.log = Append(@, [ev |-> ev, arg |-> 0, out |-> out])]

\* fn = getattr(self, '_%s' % request.lower()); if self.LOCK: ...
Dispatch(r, req) ==
  IF ~req.implemented
  THEN [r EXCEPT !.pc = "except", !.exc = "AttributeError"]
  ELSE IF req.LOCK # "" THEN [r EXCEPT !.pc = "Lock"]
  ELSE [r EXCEPT !.pc = "fn"]

\* utils.Lock(self.LOCK, max_retries=15): one attempt.  The lock is taken
\* when it is free; a held lock is retried, and LockError is raised once
\* the retries are used up.
TryLock(r, holder) ==
  IF holder = "free"
  THEN [Note(r, "Lock", "acquired") EXCEPT !.pc = "fn"]
  ELSE IF r.retries < MaxRetries
  THEN [r EXCEPT !.retries = @ + 1]
  ELSE [Note(r, "Lock", "LockError") EXCEPT !.pc = "except",
                                           !.exc = "LockError"]

\* The handler call with the lock released only when the handler returns.
RunHandler_NoFinally(r, req, holder) ==
  LET r1 == Note(r, "fn", holder)
      r2 == IF req.handler = "return" THEN r1
            ELSE [r1 EXCEPT !.exc = req.handler]
  IN  IF req.LOCK # "" /\ req.handler = "return"
      THEN [r2 EXCEPT !.pc = "finally"]
      ELSE IF r2.exc = "none" THEN [r2 EXCEPT !.pc = "send"]
      ELSE [r2 EXCEPT !.pc = "except"]

\* fn(), inside try/finally when the resource has a LOCK; the event notes
\* who holds the lock while the handler runs.
RunHandler(r, req, holder) ==
  LET r1 == Note(r, "fn", holder)
      r2 == IF req.handler = "return" THEN r1
            ELSE [r1 EXCEPT !.exc = req.handler]
  IN  IF req.LOCK # ""
      THEN [r2 EXCEPT !.pc = "finally"]
      ELSE IF r2.exc = "none" THEN [r2 EXCEPT !.pc = "send"]
      ELSE [r2 EXCEPT !.pc = "except"]

\* finally: utils.Unlock(self.LOCK); utils.LockCleanup()
Finally(r) ==
  LET r1 == Note(Note(r, "Unlock", "ok"), "LockCleanup", "ok")
  IN  IF r1.exc = "none" THEN [r1 EXCEPT !.pc = "send"]
      ELSE [r1 EXCEPT !.pc = "except"]

\* self.send(self.code, self.result), code 200 unless the handler set it
SendResult(r) ==
  [Note(r, "send", "ok") EXCEPT !.pc = "done", !.code = 200]

\* The except clauses of do_Request.
SendError(r) ==
  LET code == CASE r.exc = "RemoteAPIError" -> 200
                [] r.exc = "OpPrereqError" -> 404
                [] r.exc = "AttributeError" -> 405
                [] r.exc = "LockError" -> 503
                [] OTHER -> 500
  IN  [Note(r, "send_error", r.exc) EXCEPT !.pc = "done", !.code = code]

InitRapi ==
  /\ Fresh
  /\ input \in Requests

do_Request ==
  /\ last.op = "none"
  /\ last' = Dispatch(Received, input)
  /\ UNCHANGED <<world, argv, scan, lock, input>>

Lock ==
  /\ last.op = "do_Request" /\ last.pc = "Lock"
  /\ last' = TryLock(last, lock)
  /\ lock' = IF lock = "free" THEN "self" ELSE lock
  /\ UNCHANGED <<world, argv, scan, input>>

Handler ==
  /\ last.op = "do_Request" /\ last.pc = "fn"
  /\ last' = RunHandler(last, input, lock)
  /\ UNCHANGED <<world, argv, scan, lock, input>>

Unlock ==
  /\ last.op = "do_Request" /\ last.pc = "finally"
  /\ last' = Finally(last)
  /\ lock' = "free"
  /\ UNCHANGED <<world, argv, scan, input>>

Send ==
  /\ last.op = "do_Request" /\ last.pc \in {"send", "except"}
  /\ last' = IF last.pc = "send" THEN SendResult(last) ELSE SendError(last)
  /\ UNCHANGED <<world, argv, scan, lock, input>>

\* Another process takes or releases the named lock.
OtherLock ==
  /\ lock = "free"
  /\ lock' = "other"
  /\ UNCHANGED <<world, argv, scan, input, last>>

OtherUnlock ==
  /\ lock = "other"
  /\ lock' = "free"
  /\ UNCHANGED <<world, argv, scan, input, last>>

NextRapi ==
  \/ do_Request
  \/ Lock
  \/ Handler
  \/ Unlock
  \/ Send
  \/ OtherLock
  \/ OtherUnlock

SpecRapi == InitRapi /\ [][NextRapi]_vars

----------------------------------------------------------------------------
\* Queries on launched instances.  The node holds instances whose argument
\* vectors are tracked; GetAllInstancesInfo is followed line by line, since
\* hypervisors exit on their own while it runs.

\* Instance names are arbitrary strings.
QueryNames == {"web1", "-m"}

\* Memory size and vCPU count of the instances.
QuerySizes == {[memory |-> 128, vcpus |-> 1], [memory |-> 256, vcpus |-> 2]}

QueryInstances ==
  [name : QueryNames, acpi : {TRUE}, nics : {<<>>},
   beparams : QuerySizes,
   hvparams : {[kernel_path |-> AbsPath, initrd_path |-> <<>>]}]

InitQuery ==
  /\ pidfile = [n \in QueryNames |-> 0]
  /\ alive = {}
  /\ pending = {}
  /\ proc = [p \in Pids |-> ""]
  /\ nextPid = 1
  /\ scripts = {}
  /\ argv = [p \in Pids |-> <<>>]
  /\ scan = NoScan
  /\ lock = "free"
  /\ input = NoArgs
  /\ last = Idle

\* StartInstance of an instance with its sizes, between two queries.
StartSizedInstance ==
  \E inst \in QueryInstances :
    /\ scan.pc = "idle"
    /\ Room(inst)
    /\ \E c \in {StartInstanceCmd(World, inst, <<>>, lo) :
                  lo \in LaunchOutcomes} :
         /\ Commit(c)
         /\ argv' = c.w.argv
         /\ last' = Launched("StartInstance", inst, <<>>, c)
         /\ UNCHANGED <<scan, lock, input>>

\* None, as an element of the list GetAllInstancesInfo returns.
None == [found |-> FALSE]

\* The orders in which os.listdir can give the names of a set.
Listings(S) ==
  {l \in UNION {[1..n -> S] : n \in {Cardinality(S)}} :
     \A i, j \in DOMAIN l : i # j => l[i] # l[j]}

\* data = []; for name in os.listdir(self._PIDS_DIR):
GetAllInstancesInfo ==
  /\ scan.pc = "idle"
  /\ \E names \in Listings({n \in DOMAIN pidfile : pidfile[n] # 0}) :
       scan' = [pc |-> "for", names |-> names, data |-> <<>>]
  /\ last' = Idle
  /\ UNCHANGED <<world, argv, lock, input>>

\* data.append(self.GetInstanceInfo(name))
ScanAppend(data, info) == Append(data, info)

\* if utils.IsProcessAlive(utils.ReadPidFile(file)): (line 167)
ScanIsAlive ==
  /\ scan.pc = "for"
  /\ scan.names # <<>>
  /\ LET name == Head(scan.names)
     IN  IF IsProcessAlive(World, ReadPidFile(World, name))
         THEN scan' = [pc |-> "GetInstanceInfo", names |-> scan.names,
                       data |-> scan.data]
         ELSE scan' = [scan EXCEPT !.names = Tail(@)]
  /\ UNCHANGED <<world, argv, lock, input, last>>

\* GetInstanceInfo up to "return None" (lines 127-130)
ScanGetInstanceInfo ==
  /\ scan.pc = "GetInstanceInfo"
  /\ LET name == Head(scan.names)
         pid == ReadPidFile(World, name)
     IN  IF ~IsProcessAlive(World, pid)
         THEN scan' = [pc |-> "for", names |-> Tail(scan.names),
                       data |-> ScanAppend(scan.data, None)]
         ELSE scan' = [pc |-> "open", names |-> scan.names,
                       data |-> scan.data, pid |-> pid]
  /\ UNCHANGED <<world, argv, lock, input, last>>

\* GetInstanceInfo from open(cmdline_file) on (lines 132-155): the file of
\* a process that is gone cannot be opened.
ScanReadCmdline ==
  /\ scan.pc = "open"
  /\ IF scan.pid \notin alive
     THEN /\ scan' = NoScan
          /\ last' = [op |-> "GetAllInstancesInfo",
                      result |-> HypervisorError(2, 2, "Failed to list instance"),
                      data |-> <<>>]
     ELSE /\ scan' = [pc |-> "for", names |-> Tail(scan.names),
                      data |-> ScanAppend(scan.data,
                                 InstanceInfo(World, Head(scan.names),
                                              scan.pid))]
          /\ UNCHANGED last
  /\ UNCHANGED <<world, argv, lock, input>>

\* return data
ScanReturn ==
  /\ scan.pc = "for"
  /\ scan.names = <<>>
  /\ scan' = NoScan
  /\ last' = [op |-> "GetAllInstancesInfo", result |-> Ok,
              data |-> scan.data]
  /\ UNCHANGED <<world, argv, lock, input>>

NextQuery ==
  \/ StartSizedInstance
  \/ GetInstanceInfo
  \/ GetAllInstancesInfo
  \/ ScanIsAlive
  \/ ScanGetInstanceInfo
  \/ ScanReadCmdline
  \/ ScanReturn
  \/ ProcessExit
  \/ LatePidWrite

SpecQuery == InitQuery /\ [][NextQuery]_vars

----------------------------------------------------------------------------
\* Vocabulary of the properties.

\* The instance is running: its PID file names a live process.
Live(name) == IsProcessAlive(World, ReadPidFile(World, name))

\* The PID file exists and the process it names is dead.
Stale(name) == pidfile[name] # 0 /\ pidfile[name] \notin alive

\* No PID file, and no hypervisor was ever launched for the name.
NeverStarted(name) == pidfile[name] = 0 /\ \A p \in Pids : proc[p] # name

\* Positions of the events of one kind in a call's log.
Events(log, ev) == {i \in DOMAIN log : log[i].ev = ev}

AlreadyRunning == [kind |-> "HypervisorError", reason |-> "already running"]

----------------------------------------------------------------------------
\* C1: StartInstance on an instance whose PID file names a live process
\* fails with the "already running" HypervisorError and changes nothing: no
\* launch command, no network script, PID file and process left as they were.
C1_Step ==
  (last'.op = "StartInstance" /\ Live(last'.inst.name)) =>
     /\ last'.result = AlreadyRunning
     /\ last'.log = <<>>
     /\ UNCHANGED world

C1_AlreadyRunningChangesNothing == [][C1_Step]_vars

C1_Witness ==
  /\ last.op = "StartInstance"
  /\ last.result = AlreadyRunning
  /\ Len(last.inst.nics) > 0
  /\ Live(last.inst.name)

\* C2: when the launch command reports success but the re-read PID file
\* names no live process, StartInstance raises errors.HypervisorError and
\* no other kind of exception.
C2_UnverifiedLaunchRaisesHypervisorError ==
  ( /\ last.op = "StartInstance"
    /\ \E i \in Events(last.log, "RunCmd") : last.log[i].out # "failed"
    /\ ~Live(last.inst.name) )
  => last.result.kind = "HypervisorError"

\* C3: RebootInstance(instance) does what StopInstance(instance) followed by
\* StartInstance with the same definition does, and after a successful
\* reboot of a running instance the instance is running under another pid.
C3_Step ==
  (last'.op = "RebootInstance" /\ Live(last'.inst.name)) =>
    \E ko \in KillOutcomes, co \in CmdOutcomes, lo \in LaunchOutcomes :
      LET inst == last'.inst
          s == StopInstanceDo(World, inst, FALSE, ko, co)
          t == IF s.result = Ok THEN StartInstanceDo(s.w, inst, lo) ELSE s
      IN  /\ World' = t.w
          /\ last'.result = t.result
          /\ t.result = Ok =>
               /\ pidfile'[inst.name] \in alive'
               /\ pidfile'[inst.name] # pidfile[inst.name]

C3_RebootIsStopThenStart == [][C3_Step]_vars

\* C4: StopInstance(force=True) on a live instance returns successfully
\* whatever the ACPI flag, and, the OS-level kill working, the instance is
\* then not running and its PID file is absent.
C4_Step ==
  (last'.op = "StopInstance" /\ last'.force /\ Live(last'.inst.name)) =>
    LET log == last'.log
        name == last'.inst.name
    IN  /\ last'.result = Ok
        /\ (\A i \in Events(log, "KillProcess") : log[i].out = "dead") =>
             /\ ~IsProcessAlive(World', ReadPidFile(World', name))
             /\ pidfile'[name] = 0
             /\ pidfile[name] \notin alive'

C4_ForcedStopStops == [][C4_Step]_vars

C4_Witness ==
  /\ last.op = "StopInstance"
  /\ last.force
  /\ last.inst.acpi
  /\ \E i \in Events(last.log, "KillProcess") :
       last.log[i].out = "dead" /\ last.log[i].arg \notin alive
  /\ pidfile[last.inst.name] = 0

\* C5: StopInstance(force=False) on a live instance with ACPI enabled only
\* sends the power-down command to the monitor and never kills the process;
\* if the command is not delivered it raises HypervisorError and the process
\* and the PID file are unchanged.
C5_Step ==
  (/\ last'.op = "StopInstance" /\ ~last'.force /\ last'.inst.acpi
   /\ Live(last'.inst.name)) =>
    LET log == last'.log
        name == last'.inst.name
    IN  /\ Events(log, "KillProcess") = {}
        /\ Events(log, "Monitor") = {1}
        /\ log[1].arg = pidfile[name]
        /\ log[1].out \notin {"exited", "gone"} => alive' = alive
        /\ CmdFailed(log[1].out) =>
             /\ last'.result = [kind |-> "HypervisorError",
                                reason |-> "powerdown failed"]
             /\ Len(log) = 1
             /\ pidfile' = pidfile
        /\ log[1].out = "failed" => UNCHANGED world

C5_GracefulStopNeverKills == [][C5_Step]_vars

C5_Witness ==
  /\ last.op = "StopInstance"
  /\ ~last.force
  /\ last.inst.acpi
  /\ last.result.kind = "HypervisorError"
  /\ Events(last.log, "Monitor") = {1}
  /\ last.log[1].out = "failed"
  /\ Live(last.inst.name)

\* C6: for every instance with ACPI disabled and every starting state,
\* StopInstance(force=False) takes the same actions and reaches the same
\* final state as StopInstance(force=True), and sends no monitor command.
C6_NoAcpiStopsLikeForce ==
  \A inst \in Instances : ~inst.acpi =>
    \A ko \in KillOutcomes, co \in CmdOutcomes :
      LET soft == StopInstanceDo(World, inst, FALSE, ko, co)
          hard == StopInstanceDo(World, inst, TRUE, ko, co)
      IN  /\ soft.w = hard.w
          /\ soft.log = hard.log
          /\ soft.result = hard.result
          /\ Events(soft.log, "Monitor") = {}

C6_Witness ==
  /\ last.op = "StopInstance"
  /\ ~last.force
  /\ ~last.inst.acpi
  /\ \E i \in Events(last.log, "KillProcess") : last.log[i].out = "dead"
  /\ Events(last.log, "RemoveFile") # {}
  /\ pidfile[last.inst.name] = 0

\* C7: after StartInstance returns without error the instance is running:
\* its PID file exists and names a live process, ListInstances contains its
\* name and a second StartInstance is refused.
C7_StartedIsRunning ==
  (last.op = "StartInstance" /\ last.result = Ok) =>
    LET name == last.inst.name
    IN  /\ pidfile[name] # 0
        /\ pidfile[name] \in alive
        /\ name \in ListInstancesDo(World)
        /\ \A inst \in Instances, lo \in LaunchOutcomes :
             inst.name = name =>
               StartInstanceDo(World, inst, lo).result = AlreadyRunning

C7_Witness ==
  /\ last.op = "StartInstance"
  /\ last.result = Ok
  /\ Events(last.log, "RunCmd") # {}

\* C8: a PID file whose recorded PID is dead counts as "not running" for
\* every operation (ListInstances omits the name, GetInstanceInfo returns
\* not-found, StartInstance proceeds to launch), and a StopInstance that
\* observes it removes the file and returns successfully without killing
\* anything or sending a monitor command.
C8_Step ==
  LET name == last'.inst.name
      log == last'.log
  IN  /\ (last'.op = "StartInstance" /\ Stale(name)) =>
            Events(log, "RunCmd") # {}
      /\ (last'.op = "GetInstanceInfo" /\ Stale(name)) => last'.info = {}
      /\ (last'.op = "ListInstances") =>
            \A n \in Names : Stale(n) => n \notin last'.list
      /\ (last'.op = "StopInstance" /\ Stale(name)) =>
            /\ last'.result = Ok
            /\ log = <<[ev |-> "RemoveFile", arg |-> pidfile[name],
                        out |-> "ok"]>>
            /\ pidfile' = [pidfile EXCEPT ![name] = 0]
            /\ UNCHANGED <<alive, pending, proc, nextPid, scripts>>

C8_StalePidFileIsNotRunning == [][C8_Step]_vars

C8_Witness ==
  /\ last.op = "StopInstance"
  /\ last.result = Ok
  /\ Len(last.log) = 1
  /\ last.log[1].ev = "RemoveFile"
  /\ last.log[1].arg > 0
  /\ last.log[1].arg \notin alive
  /\ pidfile[last.inst.name] = 0

\* C9: an instance name that was never started (no PID file) is reported as
\* not running, and StopInstance on it, with either value of force, returns
\* successfully as a no-op: no kill, no monitor command, registry unchanged.
C9_Step ==
  LET name == last'.inst.name
  IN  /\ (last'.op = "GetInstanceInfo" /\ NeverStarted(name)) =>
            last'.info = {}
      /\ (last'.op = "ListInstances") =>
            \A n \in Names : NeverStarted(n) => n \notin last'.list
      /\ (last'.op = "StopInstance" /\ NeverStarted(name)) =>
            /\ ~Live(name)
            /\ last'.result = Ok
            /\ Events(last'.log, "KillProcess") = {}
            /\ Events(last'.log, "Monitor") = {}
            /\ UNCHANGED world

C9_NeverStartedStopIsNoOp == [][C9_Step]_vars

C9_Witness ==
  /\ last.op = "StopInstance"
  /\ last.force
  /\ last.result = Ok
  /\ NeverStarted(last.inst.name)
  /\ alive # {}

\* C10: for an instance with N NICs StartInstance creates exactly N network
\* scripts before it executes the launch command, and after a StartInstance
\* that returns successfully none of those N scripts exists.
C10_ScriptsAroundLaunch ==
  (last.op = "StartInstance" /\ Events(last.log, "RunCmd") # {}) =>
    LET log == last.log
        N == Len(last.inst.nics)
    IN  /\ Events(log, "RunCmd") = {N + 1}
        /\ Events(log, "WriteNetScript") = 1..N
        /\ Cardinality({log[i].arg : i \in 1..N}) = N
        /\ last.result = Ok => \A i \in 1..N : log[i].arg \notin scripts

C10_Witness ==
  /\ last.op = "StartInstance"
  /\ last.result = Ok
  /\ Len(last.inst.nics) = MaxNics
  /\ Cardinality(Events(last.log, "RemoveScript")) = MaxNics

\* C14: ListInstances returns exactly the names in the PID directory whose
\* recorded PID is live, and is read-only: it deletes no PID file (stale
\* ones included) and affects no process.
C14_Step ==
  last'.op = "ListInstances" =>
    /\ last'.list = {n \in Names : pidfile[n] # 0 /\ pidfile[n] \in alive}
    /\ UNCHANGED world

C14_ListInstancesIsExactAndReadOnly == [][C14_Step]_vars

C14_Witness ==
  /\ last.op = "ListInstances"
  /\ last.list # {}
  /\ \E n \in Names : Stale(n) /\ n \notin last.list

\* C15: operations on different instance names are independent. A
\* StartInstance, StopInstance or RebootInstance on name A leaves the PID
\* file and the processes of every other name B unchanged, the control
\* socket paths of A and B are distinct, and the call does to A, and
\* answers, what it would with no other instance on the node; so calls on
\* distinct names end in the same per-instance state in whatever order they
\* run.
DriverOps == {"StartInstance", "StopInstance", "RebootInstance"}

\* The control socket paths of an instance (base_control + suffix).
CtrlPaths(name) == {<<"ctrl", name, ".monitor">>, <<"ctrl", name, ".serial">>}

\* What belongs to one instance name: its PID file and its processes.
Own(w, name) ==
  [pidfile |-> w.pidfile[name],
   alive   |-> {p \in w.alive : w.proc[p] = name},
   pending |-> {p \in w.pending : w.proc[p] = name}]

\* The node with only one instance name on it.
Alone(w, name) ==
  [w EXCEPT !.pidfile = [n \in DOMAIN w.pidfile |->
                           IF n = name THEN w.pidfile[n] ELSE 0],
            !.alive = {p \in w.alive : w.proc[p] = name},
            !.pending = {p \in w.pending : w.proc[p] = name}]

\* The answer the outside gave to a call, read back from its log.
EnvOut(log, ev, dflt) ==
  IF Events(log, ev) = {} THEN dflt
  ELSE log[CHOOSE i \in Events(log, ev) : TRUE].out

\* The call a step made, replayed on another state of the node.
Replay(w, l) ==
  LET ko == EnvOut(l.log, "KillProcess", "dead")
      co == EnvOut(l.log, "Monitor", "failed")
      lo == EnvOut(l.log, "RunCmd", "failed")
  IN  CASE l.op = "StartInstance" -> StartInstanceDo(w, l.inst, lo)
        [] l.op = "StopInstance" ->
             StopInstanceDo(w, l.inst, l.force, ko, co)
        [] l.op = "RebootInstance" ->
             RebootInstanceDo(w, l.inst, ko, co, lo)

C15_Step ==
  last'.op \in DriverOps =>
    LET A == last'.inst.name
        alone == Replay(Alone(World, A), last')
    IN  /\ \A B \in Names \ {A} :
             /\ Own(World', B) = Own(World, B)
             /\ CtrlPaths(A) \cap CtrlPaths(B) = {}
        /\ alone.result = last'.result
        /\ alone.log = last'.log
        /\ Own(alone.w, A) = Own(World', A)

C19_Original_Step ==
  (last'.op = "StopInstance" /\ pidfile[last'.inst.name] > 0) =>
    LET name == last'.inst.name
        pid == pidfile[name]
    IN  /\ pid \notin alive' => pidfile'[name] = 0
        /\ pid \in alive' => pidfile'[name] = pid

C19_PidFileAbsentIffDead == [][C19_Original_Step]_vars

\* C19 amended: after a StopInstance that returns without error the PID file
\* is absent if the process it recorded is dead and still present if it is
\* live; a StopInstance that raises leaves the PID file as it was, also when
\* the process has exited meanwhile.
C19_Step ==
  (last'.op = "StopInstance" /\ pidfile[last'.inst.name] > 0) =>
    LET name == last'.inst.name
        pid == pidfile[name]
    IN  /\ pid \in alive' => pidfile'[name] = pid
        /\ (last'.result = Ok /\ pid \notin alive') => pidfile'[name] = 0
        /\ last'.result # Ok => pidfile'[name] = pid

C19_PidFileRemovedOnlyWhenDead == [][C19_Step]_vars

C19_Witness ==
  /\ last.op = "StopInstance"
  /\ last.result = Ok
  /\ Events(last.log, "Monitor") = {1}
  /\ last.log[1].out = "delivered"
  /\ pidfile[last.inst.name] = last.log[1].arg
  /\ Live(last.inst.name)

\* C17: two-phase validation.  CheckParameterSyntax rejects an empty or
\* relative kernel path and a relative initrd path whatever the filesystem
\* holds, and looks at no file; a kernel path that is absolute passes it
\* (with an initrd path that is empty or absolute), and ValidateParameters
\* rejects an absolute kernel path that names no existing regular file.
Rejected(result) == result.kind = "HypervisorError"

C17_TwoPhaseValidation ==
  /\ last.op = "CheckParameterSyntax" =>
       LET kernel == last.hvparams.kernel_path
           initrd == last.hvparams.initrd_path
       IN  /\ last.log = <<>>
           /\ (kernel = <<>> \/ ~IsAbs(kernel)) => Rejected(last.result)
           /\ (initrd # <<>> /\ ~IsAbs(initrd)) => Rejected(last.result)
           /\ (IsAbs(kernel) /\ (initrd = <<>> \/ IsAbs(initrd))) =>
                last.result = Ok
  /\ last.op = "ValidateParameters" =>
       LET kernel == last.hvparams.kernel_path
       IN  (IsAbs(kernel) /\ last.fs[kernel] # "file") =>
             Rejected(last.result)

C17_Witness ==
  /\ last.op = "ValidateParameters"
  /\ IsAbs(last.hvparams.kernel_path)
  /\ last.fs[last.hvparams.kernel_path] = "dir"
  /\ CheckParameterSyntaxDo(last.fs, last.hvparams).result = Ok
  /\ Rejected(last.result)

\* The kernel path is missing, relative, or names no existing regular file.
BadKernel(fs, kernel_path) ==
  \/ kernel_path = <<>>
  \/ ~IsAbs(kernel_path)
  \/ ~IsFile(fs, kernel_path)

\* The command of the launch a call made.
LaunchCmd(log) == log[CHOOSE i \in Events(log, "RunCmd") : TRUE].arg

\* C11 as stated: for an instance whose kernel path is missing, relative or
\* names no existing regular file, StartInstance never executes the launch
\* command.
C11_BadKernelNeverLaunched ==
  (last.op = "StartInstance"
   /\ BadKernel(input.fs, last.inst.hvparams.kernel_path)) =>
    Events(last.log, "RunCmd") = {}

\* C11 amended: a missing or relative kernel path is rejected by
\* CheckParameterSyntax and one that names no existing regular file by
\* ValidateParameters, so every bad kernel path fails one of the two checks
\* a caller makes before starting; StartInstance itself validates nothing:
\* on an instance that is not running it executes the launch command with
\* the kernel path as given.
C11_ValidationIsNotPartOfStart ==
  /\ last.op = "CheckParameterSyntax" =>
       LET kernel == last.hvparams.kernel_path
       IN  (kernel = <<>> \/ ~IsAbs(kernel)) => Rejected(last.result)
  /\ (last.op = "ValidateParameters"
      /\ ~IsFile(last.fs, last.hvparams.kernel_path)) =>
       Rejected(last.result)
  /\ last.op = "StartInstance" =>
       /\ Events(last.log, "RunCmd") # {}
       /\ \E i \in DOMAIN LaunchCmd(last.log) :
            /\ IsStr(LaunchCmd(last.log)[i], "-kernel")
            /\ IsPath(LaunchCmd(last.log)[i + 1],
                      last.inst.hvparams.kernel_path)

C11_Witness ==
  /\ last.op = "StartInstance"
  /\ ~IsAbs(last.inst.hvparams.kernel_path)
  /\ Events(last.log, "RunCmd") # {}
  /\ last.result = Ok
  /\ Live(last.inst.name)

\* C18: the launch command for N NICs and D block devices holds exactly N
\* pairs of -net options, each a nic option immediately followed by the tap
\* option with that NIC's script, in NIC list order, or the single
\* "-net none" when N = 0; and exactly D -drive options in list order, of
\* which only the first is marked bootable.
Least(S) == CHOOSE i \in S : \A j \in S : i <= j

C18_LaunchCommandShape ==
  (last.op = "StartInstance" /\ Events(last.log, "RunCmd") # {}) =>
    LET cmd == LaunchCmd(last.log)
        nics == last.inst.nics
        N == Len(nics)
        block_devices == last.block_devices
        D == Len(block_devices)
        nets == {i \in DOMAIN cmd : IsStr(cmd[i], "-net")}
        drives == {i \in DOMAIN cmd : IsStr(cmd[i], "-drive")}
    IN  /\ N = 0 =>
             /\ Cardinality(nets) = 1
             /\ IsStr(cmd[Least(nets) + 1], "none")
        /\ N > 0 =>
             /\ Cardinality(nets) = 2 * N
             /\ \A j \in 1..N :
                  LET b == Least(nets) + 4 * (j - 1)
                  IN  /\ IsStr(cmd[b], "-net")
                      /\ IsFmt(cmd[b + 1], "nic,macaddr=%s,model=virtio",
                               <<nics[j].mac>>)
                      /\ IsStr(cmd[b + 2], "-net")
                      /\ last.log[j].ev = "WriteNetScript"
                      /\ IsFmt(cmd[b + 3], "tap,script=%s",
                               <<last.log[j].arg>>)
        /\ Cardinality(drives) = D
        /\ \A j \in 1..D :
             LET b == Least(drives) + 2 * (j - 1)
             IN  /\ IsStr(cmd[b], "-drive")
                 /\ IsFmt(cmd[b + 1], "file=%s,format=raw%s%s",
                          <<block_devices[j].rldev.dev_path, ",if=virtio",
                            IF j = 1 THEN ",boot=on" ELSE "">>)

C18_Witness ==
  /\ last.op = "StartInstance"
  /\ last.result = Ok
  /\ Len(last.inst.nics) = 2
  /\ Len(last.block_devices) = 2
  /\ last.block_devices[1].rldev.dev_path = 2

\* The value in kB of a counter of /proc/meminfo.
Counter(meminfo, key) ==
  meminfo[CHOOSE i \in DOMAIN meminfo : meminfo[i].key = key].kb

\* C16: GetNodeInfo reports memory_total as the whole megabytes of MemTotal
\* and memory_free as the whole megabytes of the sum of the MemFree, Buffers
\* and Cached counters: with MemTotal = 4096 MiB and a sum of 1024 MiB it
\* yields memory_total = 4096 and memory_free = 1024.
C16_FreeIsWholeMbOfSum ==
  (last.op = "GetNodeInfo" /\ last.result = Ok) =>
    LET m == last.node.meminfo
        sum == Counter(m, "MemFree") + Counter(m, "Buffers")
               + Counter(m, "Cached")
    IN  /\ last.info.memory_total = Counter(m, "MemTotal") \div KbPerMb
        /\ last.info.memory_free = sum \div KbPerMb
        /\ (Counter(m, "MemTotal") = 4096 * KbPerMb /\ sum = 1024 * KbPerMb)
             => (last.info.memory_total = 4096
                 /\ last.info.memory_free = 1024)

\* C20: for a resource whose LOCK is set, do_Request runs the handler only
\* while it holds the named lock and releases the lock on every exit of the
\* handler, by return or by exception; when the lock cannot be acquired
\* within the retries the handler is not run, no unlock is attempted and
\* error 503 is sent; a resource with LOCK = None runs its handler without
\* taking the lock.
C20_HandlerRunsUnderTheLock ==
  last.op = "do_Request" =>
    LET log == last.log
        ran == Events(log, "fn")
        unlocked == Events(log, "Unlock")
        ended == last.pc \in {"send", "except", "done"}
    IN  /\ input.LOCK # "" =>
             /\ \A i \in ran : log[i].out = "self"
             /\ last.pc = "fn" => lock = "self"
             /\ last.pc = "finally" => (lock = "self" /\ ran # {})
             /\ (ended /\ ran # {}) =>
                  /\ lock # "self"
                  /\ \E j \in unlocked : \A i \in ran : i < j
             /\ (last.exc = "LockError" /\ ran = {}) =>
                  /\ last.retries = MaxRetries
                  /\ unlocked = {}
                  /\ lock # "self"
                  /\ last.pc = "done" => last.code = 503
        /\ input.LOCK = "" =>
             /\ Events(log, "Lock") = {}
             /\ unlocked = {}
             /\ lock # "self"
             /\ \A i \in ran : log[i].out # "self"

C20_Witness ==
  /\ last.op = "do_Request"
  /\ last.pc = "done"
  /\ input.LOCK = "cmd"
  /\ input.handler = "Exception"
  /\ last.retries > 0
  /\ Events(last.log, "fn") # {}
  /\ Events(last.log, "Unlock") # {}
  /\ last.code = 500
  /\ lock = "free"

\* C13: round trip between launch and query.  For every instance name,
\* memory size M and vCPU count V: when StartInstance has launched the
\* instance and its process is live, GetInstanceInfo(name) returns memory M
\* and vcpus V (as the strings of the argument vector); when the instance
\* is not live it returns None.
C13_Step ==
  /\ (last.op = "StartInstance" /\ last.result = Ok
      /\ last'.op = "GetInstanceInfo" /\ last'.inst.name = last.inst.name
      /\ Live(last.inst.name)) =>
       \E t \in last'.info :
         /\ t.name = last.inst.name
         /\ IsArg(t.memory, DecStr(last.inst.beparams.memory))
         /\ IsArg(t.vcpus, DecStr(last.inst.beparams.vcpus))
  /\ (last'.op = "GetInstanceInfo" /\ ~Live(last'.inst.name)) =>
       last'.info = {}

C13_LaunchQueryRoundTrip == [][C13_Step]_vars

\* C12: GetAllInstancesInfo returns exactly one tuple for each name in the
\* PID directory whose process is live and nothing for the others; None is
\* never in the returned list, whatever hypervisors exit during the call.
C12_OneTuplePerLiveInstance ==
  (last.op = "GetAllInstancesInfo" /\ last.result = Ok) =>
    /\ \A i \in DOMAIN last.data : last.data[i].found
    /\ \A i, j \in DOMAIN last.data :
         (i # j /\ last.data[i].found /\ last.data[j].found) =>
           last.data[i].name # last.data[j].name

\* C21: when StartInstance fails after it has created network scripts (the
\* launch command fails, or the verification after the launch fails), the
\* driver deletes none of them: all N scripts created in the call still
\* exist when the error reaches the caller.
C21_FailedStartLeavesItsScripts ==
  (last.op = "StartInstance" /\ last.result # Ok
   /\ Events(last.log, "RunCmd") # {}) =>
    LET log == last.log
        N == Len(last.inst.nics)
        created == {log[i].arg : i \in Events(log, "WriteNetScript")}
    IN  /\ Cardinality(created) = N
        /\ created \subseteq scripts
        /\ Events(log, "RemoveScript") = {}

C21_Witness ==
  /\ last.op = "StartInstance"
  /\ last.result.kind = "TypeError"
  /\ Len(last.inst.nics) = MaxNics
  /\ \E i \in Events(last.log, "RunCmd") : last.log[i].out = "crashed"
  /\ Cardinality(scripts) = MaxNics

\* The live hypervisor processes the driver launched for an instance name.
Hypervisors(name) == {p \in alive : proc[p] = name}

\* C22: with one driver call at a time, after any sequence of StartInstance,
\* StopInstance and RebootInstance calls interleaved with process exits and
\* late PID-file writes of daemonizing hypervisors, at most one live
\* hypervisor process launched by the driver exists per instance name, and
\* every such process that has written its PID file is the one recorded in
\* the PID file of that name.
C22_OneRecordedProcessPerName ==
  \A name \in Names :
    /\ Cardinality(Hypervisors(name)) <= 1
    /\ \A p \in Hypervisors(name) \ pending : pidfile[name] = p

====
